---- MODULE Spec2Model ----
(***************************************************************************)
(* Fixed-income projection engine of simulador_inteligente.py.             *)
(*                                                                         *)
(* Numbers.  The program computes with Python floats, IEEE 754 binary64.   *)
(* The model computes with the same numbers: a float is a record           *)
(* [s, m, e] of value s * m * 2^e, with s the sign (1 or -1), m the 53-bit *)
(* significand and e the exponent; zero is [1, 0, 0].  The significand is  *)
(* a natural number of any size, written as a little-endian sequence of    *)
(* 13-bit limbs, because the integers of the checker have 32 bits.  Each   *)
(* operation computes the exact result and rounds it to the nearest float, *)
(* ties to even, as the hardware does.  The exponent range is not bounded  *)
(* (no overflow, no subnormals) and zero has one sign; no value of the     *)
(* model comes near either case.                                           *)
(*                                                                         *)
(* x ** (1/12) is the C library's pow(x, 1/12), the exponent being the      *)
(* float nearest to 1/12.  The library does not round every result to the  *)
(* nearest float, and which way it goes on a result close to the middle of *)
(* two floats depends on the library.  The model computes the power to 64  *)
(* bits; close to the middle of two floats it allows both, elsewhere the   *)
(* nearest.  Each power the behaviours of the model take has one value.    *)
(*                                                                         *)
(* Inputs.  The amounts and the scenario rates are not negative, as the    *)
(* form guarantees.  The form's starting values and the script's product   *)
(* list are among the inputs; the others exercise the functions as they    *)
(* can be called: with an indexer the resolver does not know, with a CDI   *)
(* fraction that makes the monthly rate negative, with a horizon of zero   *)
(* months, and with more products than the script has colours.             *)
(***************************************************************************)
EXTENDS Integers, Sequences, FiniteSets

VARIABLES
    produtos,         \* the product list the script iterates over
    meses,            \* form input: horizon in months
    aporte_inicial,   \* form input: initial deposit
    aporte_mensal,    \* form input: monthly contribution
    cdi_anual,        \* form input: annual CDI
    ipca_anual,       \* form input: annual IPCA
    idx,              \* position of the script's for loop (1-based)
    resultados,       \* list of <<nome, saldo_final, rendimento_bruto>>
    fig,              \* the traces added to the figure, one per product
    rent_mensal,      \* local of simular_valor_futuro
    saldo,            \* local of simular_valor_futuro
    valores,          \* local of simular_valor_futuro
    i,                \* next value of the loop variable of simular_valor_futuro
    rendimento_bruto, \* local of simular_valor_futuro
    melhor,           \* script variable
    segundo,          \* script variable
    dias,             \* argument of a direct call of obter_aliquota_ir
    aliquota,         \* value returned by that call
    erro,             \* the exception that ended the script, if any
    pc                \* position of the script

vars == <<produtos, meses, aporte_inicial, aporte_mensal, cdi_anual, ipca_anual,
          idx, resultados, fig, rent_mensal, saldo, valores, i,
          rendimento_bruto, melhor, segundo, dias, aliquota, erro, pc>>

----------------------------------------------------------------------------
(* Natural numbers of any size, and floats *)

\* the limbs of a natural number are its digits in this base
Base == 2^13

\* a natural number of the checker as limbs
RECURSIVE Limbs(_)
Limbs(n) == IF n = 0 THEN <<>> ELSE <<n % Base>> \o Limbs(n \div Base)

\* drop the leading zero limbs
RECURSIVE Strip(_)
Strip(a) == IF a = <<>> \/ a[Len(a)] # 0 THEN a ELSE Strip(SubSeq(a, 1, Len(a) - 1))

Limb(a, k) == IF k <= Len(a) THEN a[k] ELSE 0

\* the element of a set of one element: Unico({ F(v) : v \in {e} }) is F(e),
\* with e computed once
Unico(S) == CHOOSE v \in S : TRUE

\* carry propagation over the column sums c[lo..hi], the carry coming in from
\* below: <<limbs, carry out>>, the two halves one after the other
RECURSIVE PropagaDe(_, _, _, _)
PropagaDe(c, lo, hi, carry) ==
    IF lo = hi THEN Unico({ <<<<t % Base>>, t \div Base>> : t \in {c[lo] + carry} })
    ELSE Unico({ Unico({ <<e[1] \o d[1], d[2]>> :
                         d \in {PropagaDe(c, (lo + hi) \div 2 + 1, hi, e[2])} }) :
                 e \in {PropagaDe(c, lo, (lo + hi) \div 2, carry)} })

\* the natural number of the n column sums c
Propaga(c, n) ==
    Unico({ Strip(r[1] \o Limbs(r[2])) : r \in {PropagaDe(c, 1, n, 0)} })

Maior(a, b) == IF a >= b THEN a ELSE b
Menor(a, b) == IF a <= b THEN a ELSE b

\* a + b, a - b (for a >= b), a * b, the sign of a - b
BAdd(a, b) ==
    IF a = <<>> THEN b
    ELSE IF b = <<>> THEN a
    ELSE Propaga([k \in 1..Maior(Len(a), Len(b)) |-> Limb(a, k) + Limb(b, k)],
                 Maior(Len(a), Len(b)))

BSub(a, b) ==
    IF b = <<>> THEN a
    ELSE Propaga([k \in 1..Len(a) |-> a[k] - Limb(b, k)], Len(a))

RECURSIVE Coluna(_, _, _, _, _)
Coluna(a, b, k, j, hi) ==
    IF j > hi THEN 0 ELSE a[j] * b[k + 1 - j] + Coluna(a, b, k, j + 1, hi)

BMul(a, b) ==
    IF a = <<>> \/ b = <<>> THEN <<>>
    ELSE Propaga([k \in 1..(Len(a) + Len(b) - 1) |->
                     Coluna(a, b, k, Maior(1, k + 1 - Len(b)), Menor(k, Len(a)))],
                 Len(a) + Len(b) - 1)

RECURSIVE BCmpDe(_, _, _)
BCmpDe(a, b, k) ==
    IF k = 0 THEN 0
    ELSE IF a[k] > b[k] THEN 1
    ELSE IF a[k] < b[k] THEN -1
    ELSE BCmpDe(a, b, k - 1)

BCmp(a, b) ==
    IF Len(a) > Len(b) THEN 1
    ELSE IF Len(a) < Len(b) THEN -1
    ELSE BCmpDe(a, b, Len(a))

\* a * 2^n, a \div 2^n, a % 2^n # 0, the number of bits of a, a is odd
BShl(a, n) ==
    IF a = <<>> THEN <<>>
    ELSE [k \in 1..(n \div 13) |-> 0] \o
         Propaga([k \in 1..Len(a) |-> a[k] * 2^(n % 13)], Len(a))

BShr(a, n) ==
    LET q == n \div 13
        r == n % 13
    IN  IF q >= Len(a) THEN <<>>
        ELSE Strip([k \in 1..(Len(a) - q) |->
                       (a[k + q] \div 2^r) + (Limb(a, k + q + 1) % 2^r) * 2^(13 - r)])

Resto(a, n) ==
    \/ \E k \in 1..Menor(n \div 13, Len(a)) : a[k] # 0
    \/ Limb(a, n \div 13 + 1) % 2^(n % 13) # 0

BitLen(a) ==
    IF a = <<>> THEN 0
    ELSE 13 * (Len(a) - 1) + CHOOSE b \in 1..13 : 2^(b - 1) <= a[Len(a)] /\ a[Len(a)] < 2^b

Impar(a) == a # <<>> /\ a[1] % 2 = 1

\* long division by a small divisor: <<quotient, remainder>>
RECURSIVE BDivDe(_, _, _, _, _)
BDivDe(a, d, k, r, acc) ==
    IF k = 0 THEN <<Strip(acc), r>>
    ELSE LET t == r * Base + a[k]
         IN  BDivDe(a, d, k - 1, t % d, <<t \div d>> \o acc)

BDiv(a, d) == BDivDe(a, d, Len(a), 0, <<>>)

\* the float 0.0
Zero == [s |-> 1, m |-> <<>>, e |-> 0]

\* the float nearest to s * (M + f) * 2^E, ties to even, where 0 <= f < 1 and
\* st says that f > 0; when st holds M has more than 53 bits
ArredondaS(s, M, E, st) ==
    IF M = <<>> THEN Zero
    ELSE LET n == BitLen(M)
         IN  IF n <= 53 THEN [s |-> s, m |-> BShl(M, 53 - n), e |-> E - (53 - n)]
             ELSE LET k == n - 53
                      q == BShr(M, k)
                      meio == Impar(BShr(M, k - 1))
                      sobe == meio /\ (st \/ Resto(M, k - 1) \/ Impar(q))
                      q2 == IF sobe THEN BAdd(q, <<1>>) ELSE q
                  IN  IF BitLen(q2) > 53
                        THEN [s |-> s, m |-> BShr(q2, 1), e |-> E + k + 1]
                        ELSE [s |-> s, m |-> q2, e |-> E + k]

Arredonda(s, M, E) == ArredondaS(s, M, E, FALSE)

\* x * y, x + y, -x, x - y of floats
FMul(x, y) ==
    IF x.m = <<>> \/ y.m = <<>> THEN Zero
    ELSE Arredonda(x.s * y.s, BMul(x.m, y.m), x.e + y.e)

FAdd(x, y) ==
    IF x.m = <<>> THEN y
    ELSE IF y.m = <<>> THEN x
    ELSE LET e == Menor(x.e, y.e)
             X == BShl(x.m, x.e - e)
             Y == BShl(y.m, y.e - e)
             c == BCmp(X, Y)
         IN  IF x.s = y.s THEN Arredonda(x.s, BAdd(X, Y), e)
             ELSE IF c = 0 THEN Zero
             ELSE IF c > 0 THEN Arredonda(x.s, BSub(X, Y), e)
             ELSE Arredonda(y.s, BSub(Y, X), e)

FNeg(x) == IF x.m = <<>> THEN x ELSE [x EXCEPT !.s = -x.s]
FSub(x, y) == FAdd(x, FNeg(y))

\* the sign of x - y: floats of one sign are ordered by exponent, then by
\* significand, since every significand has 53 bits
FCmp(x, y) ==
    IF x.m = <<>> THEN (IF y.m = <<>> THEN 0 ELSE -y.s)
    ELSE IF y.m = <<>> THEN x.s
    ELSE IF x.s # y.s THEN x.s
    ELSE IF x.e # y.e THEN (IF x.e > y.e THEN x.s ELSE -x.s)
    ELSE x.s * BCmp(x.m, y.m)

FLe(x, y) == FCmp(x, y) <= 0
FLt(x, y) == FCmp(x, y) < 0

\* float(n) of an int n >= 0
DeInt(n) == Arredonda(1, Limbs(n), 0)

\* the float a decimal literal stands for: the float nearest to n / 10^d
Decimal(n, d) ==
    LET qr == BDiv(BShl(Limbs(n), 70), 10^d)
    IN  ArredondaS(1, qr[1], -70, qr[2] # 0)

\* h ** 12 of a natural number
Pot12(h) ==
    Unico({ BMul(BMul(h4, h4), h4) : h4 \in { BMul(h2, h2) : h2 \in {BMul(h, h)} } })

\* h with its bit b set if the 12th power of that is at most alvo, else h
Bit(h, b, alvo) ==
    Unico({ IF BCmp(Pot12(c), alvo) <= 0 THEN c ELSE h : c \in {BAdd(h, BShl(<<1>>, b))} })

\* the greatest natural number, among h with any of its bits hi..lo set,
\* whose 12th power is at most alvo: the bits from hi down to lo, one half of
\* them after the other
RECURSIVE RaizDe(_, _, _, _)
RaizDe(h, hi, lo, alvo) ==
    IF hi = lo THEN Bit(h, hi, alvo)
    ELSE Unico({ RaizDe(g, (hi + lo + 1) \div 2 - 1, lo, alvo) :
                 g \in {RaizDe(h, hi, (hi + lo + 1) \div 2, alvo)} })

Um == DeInt(1)

\* 1/12, the exponent of ** (1/12): the float nearest to one twelfth, which
\* is smaller than one twelfth
UmDoze ==
    LET qr == BDiv(BShl(<<1>>, 70), 12)
    IN  ArredondaS(1, qr[1], -70, qr[2] # 0)

\* the power is computed to PrecisaoRaiz bits after the leading one, with
\* logarithms of PrecisaoLog bits after the point
PrecisaoRaiz == 64
PrecisaoLog == 40

\* a natural number of limbs a as a number of the checker
RECURSIVE DeLimbs(_)
DeLimbs(a) == IF a = <<>> THEN 0 ELSE a[1] + Base * DeLimbs(Tail(a))

\* 2 * atanh(z) = 2 * (z + z^3/3 + z^5/5 + ...) for 0 <= z <= 1/3, z and the
\* result in units of 2^-PrecisaoLog; pot is z^k
RECURSIVE Atanh2De(_, _, _, _)
Atanh2De(z2, pot, k, acc) ==
    IF pot = <<>> THEN BShl(acc, 1)
    ELSE Atanh2De(z2, BShr(BMul(pot, z2), PrecisaoLog), k + 2,
                  BAdd(acc, BDiv(pot, k)[1]))

Atanh2(z) == Atanh2De(BShr(BMul(z, z), PrecisaoLog), z, 1, <<>>)

\* ln 2 = 2 * atanh(1/3)
Ln2 == Atanh2(BDiv(BShl(<<1>>, PrecisaoLog), 3)[1])

\* ln r = 2 * atanh((r - 1) / (r + 1)) for h = r * 2^PrecisaoRaiz, 1 <= r < 2;
\* the divisor is r + 1 cut to its first 16 bits
Ln(h) ==
    LET um == BShl(<<1>>, PrecisaoRaiz)
        d == DeLimbs(BShr(BAdd(h, um), PrecisaoRaiz - 14))
    IN  Unico({ Atanh2(z) : z \in { BDiv(BShr(BShl(BSub(h, um), PrecisaoLog),
                                               PrecisaoRaiz - 14), d)[1] } })

\* the exponent is UmDoze, short of 1/12 by falta / 12: with the 12th root
\* of x equal to r * 2^k, 1 <= r < 2, and h equal to r in units of
\* 2^-PrecisaoRaiz, x ** UmDoze is the root divided by
\* x ** (falta / 12) = exp(falta * ln(r * 2^k)) = 1 + falta * (k ln 2 + ln r),
\* the next term of the series being below 2^-100; the result is in the
\* same units
Corrigida(h, k) ==
    LET falta == BSub(BShl(<<1>>, -UmDoze.e), BMul(UmDoze.m, <<12>>))
        c(l) == BShr(BMul(BMul(h, l), falta), PrecisaoLog - UmDoze.e)
    IN  IF k >= 0 THEN BSub(h, c(BAdd(BMul(Limbs(k), Ln2), Ln(h))))
                  ELSE BAdd(h, c(Unico({ IF BCmp(l[1], l[2]) > 0 THEN BSub(l[1], l[2]) ELSE <<>> :
                                         l \in {<<BMul(Limbs(-k), Ln2), Ln(h)>>} })))

\* x ** (1/12) for a float x > 0, as <<Y, E>> with the power within two
\* units of Y * 2^E and Y of PrecisaoRaiz bits or one more: for
\* 2^(12 k) <= x < 2^(12 (k + 1)) the 12th root of x is r * 2^k, 1 <= r < 2
Potencia(x) ==
    LET k == (52 + x.e) \div 12
    IN  Unico({ <<Corrigida(h, k), k - PrecisaoRaiz>> :
                h \in { RaizDe(BShl(<<1>>, PrecisaoRaiz), PrecisaoRaiz - 1, 0, alvo) :
                        alvo \in {BShl(x.m, x.e - 12 * k + 12 * PrecisaoRaiz)} } })

\* the floats a power of value Y * 2^E can be returned as: pow is accurate
\* to a little over half a unit in the last place, not always the nearest
\* float.  Where the power lies within 1/16 of a unit of the middle of two
\* floats the result is either of them, and elsewhere it is the nearest.
\* t is the power's position between the two floats, in sixteenths.
Vizinhos(Y, E) ==
    LET k == BitLen(Y) - 53
        q == BShr(Y, k)
        t == Limb(BShr(Y, k - 4), 1) % 16
        abaixo == Arredonda(1, q, E + k)
        acima == Arredonda(1, BAdd(q, <<1>>), E + k)
    IN  IF t \in {7, 8} THEN {abaixo, acima}
        ELSE IF t > 8 THEN {acima}
        ELSE {abaixo}

\* x ** (1/12) as the C library's pow computes it, for x >= 0 (for x < 0
\* Python answers with a complex number): pow(0, y) is 0 and pow(1, y) is 1
CalcularRaiz12(x) ==
    IF x.m = <<>> \/ x = Um THEN {x}
    ELSE UNION { Vizinhos(p[1], p[2]) : p \in { Potencia(x) } }

----------------------------------------------------------------------------
(* Bounds and input sets *)

MaxMeses == 36
MaxProdutos == 4
MaxDias == 722

\* the three products of the script, followed by further configurations of
\* the same functions: a CDI product above 100% of CDI, a product of an
\* indexer the resolver does not know, an exempt prefixed product of rate
\* zero, a taxed CDI product and a taxed prefixed product of rate zero
Catalogo ==
    << [nome |-> "CDB - Prefixada", tipo |-> "Prefixada", taxa |-> Decimal(1175, 4),
        isento_ir |-> FALSE],
       [nome |-> "LCI - Pos CDI", tipo |-> "CDI", taxa |-> Decimal(94, 2),
        isento_ir |-> TRUE],
       [nome |-> "LCA - IPCA +", tipo |-> "IPCA +", taxa |-> Decimal(58, 3),
        isento_ir |-> TRUE],
       [nome |-> "CDB - 110 CDI", tipo |-> "CDI", taxa |-> Decimal(11, 1),
        isento_ir |-> FALSE],
       [nome |-> "Tesouro Selic", tipo |-> "Selic", taxa |-> Decimal(1, 1),
        isento_ir |-> FALSE],
       [nome |-> "LCI - Prefixada 0", tipo |-> "Prefixada", taxa |-> Zero,
        isento_ir |-> TRUE],
       [nome |-> "CDB - Pos CDI", tipo |-> "CDI", taxa |-> Decimal(94, 2),
        isento_ir |-> FALSE],
       [nome |-> "CDB - Prefixada 0", tipo |-> "Prefixada", taxa |-> Zero,
        isento_ir |-> FALSE] >>

\* the positions in the catalogue of the list the script iterates over
ListaDoScript == <<1, 2, 3>>

cores == <<"red", "blue", "green">>

\* aporte_inicial: 0.0 and the form's starting value 1000.0
Depositos == {Zero, DeInt(1000)}

\* aporte_mensal: 0.0, 0.10 and the form's starting value 500.0
Aportes == {Zero, Decimal(10, 2), DeInt(500)}

\* <<cdi_anual, ipca_anual>>: the form's starting values 0.1375 and 0.045,
\* and both rates 0.0
Cenarios == {<<Decimal(1375, 4), Decimal(45, 3)>>, <<Zero, Zero>>}

\* lists of distinct products, as positions in the catalogue: the first n
\* products of the catalogue, from the script's three up to MaxProdutos, and
\* every list of one or two of the further products
ListasDeProdutos ==
    { l \in UNION { [1..n -> 1..Len(Catalogo)] : n \in 1..MaxProdutos } :
        /\ \A a, b \in DOMAIN l : a # b => l[a] # l[b]
        /\ IF Len(l) >= Len(ListaDoScript)
             THEN \A k \in DOMAIN l : l[k] = k
             ELSE \A k \in DOMAIN l : l[k] > Len(ListaDoScript) }

----------------------------------------------------------------------------
(* Pure functions *)

Aliquota225 == Decimal(225, 3)
Aliquota200 == Decimal(20, 2)
Aliquota175 == Decimal(175, 3)
Aliquota150 == Decimal(15, 2)

\* variant: the limits tested with < in place of <=
obter_aliquota_ir_estrito(d) ==
    IF d < 180 THEN Aliquota225
    ELSE IF d < 360 THEN Aliquota200
    ELSE IF d < 720 THEN Aliquota175
    ELSE Aliquota150

obter_aliquota_ir(d) ==
    IF d <= 180 THEN Aliquota225
    ELSE IF d <= 360 THEN Aliquota200
    ELSE IF d <= 720 THEN Aliquota175
    ELSE Aliquota150

\* the arguments that ** (1/12) gets from the catalogue and the scenarios
ArgumentosDaRaiz ==
    UNION { { FAdd(Um, Catalogo[p].taxa),
              FAdd(Um, c[1]),
              FMul(FAdd(Um, c[2]), FAdd(Um, Catalogo[p].taxa)) } :
            p \in DOMAIN Catalogo, c \in Cenarios }

\* their roots, computed once
RaizesCalculadas == { <<x, CalcularRaiz12(x)>> : x \in ArgumentosDaRaiz }

\* x ** (1/12): the values the power can take
Raiz12(x) ==
    IF x \in ArgumentosDaRaiz
      THEN (CHOOSE par \in RaizesCalculadas : par[1] = x)[2]
      ELSE CalcularRaiz12(x)

\* the values calcular_rentabilidade_mensal can return: one for each value
\* of the power
calcular_rentabilidade_mensal(tipo_rentabilidade, taxa, cdi, ipca) ==
    IF tipo_rentabilidade = "Prefixada"
      THEN { FSub(r, Um) : r \in Raiz12(FAdd(Um, taxa)) }
    ELSE IF tipo_rentabilidade = "CDI"
      THEN { FSub(r, FMul(Um, taxa)) : r \in Raiz12(FAdd(Um, cdi)) }
    ELSE IF tipo_rentabilidade = "IPCA +"
      THEN { FSub(r, Um) : r \in Raiz12(FMul(FAdd(Um, ipca), FAdd(Um, taxa))) }
    ELSE {Zero}

\* variant: range(1, meses)
NoLacoCurto(i_, m) == i_ < m

\* range(1, meses + 1) still has the value i
NoLaco(i_, m) == i_ <= m

\* variant: saldo *= rent_mensal, the 1 + forgotten
ProximoSaldoSemPrincipal(s, rent, aporte) == FAdd(FMul(s, rent), aporte)

\* one month of the projection loop: saldo *= (1 + rent_mensal); saldo += aporte_mensal
ProximoSaldo(s, rent, aporte) == FAdd(FMul(s, FAdd(Um, rent)), aporte)

\* the capital paid in: aporte_inicial + aporte_mensal * meses
TotalAportado(ai, am, m) == FAdd(ai, FMul(am, DeInt(m)))

\* variant: the bracket looked up by months, the * 30 forgotten
ImpostoPorMeses(rb, m) == FMul(rb, obter_aliquota_ir(m))

\* imposto = rendimento_bruto * obter_aliquota_ir(meses * 30)
Imposto(rb, m) == FMul(rb, obter_aliquota_ir(m * 30))

\* variant: the exemption test inverted
SaldoLiquidoInvertido(s, rb, m, isento) == IF isento THEN FSub(s, Imposto(rb, m)) ELSE s

\* variant: the tax added to the balance
SaldoLiquidoSomado(s, rb, m, isento) == IF ~isento THEN FAdd(s, Imposto(rb, m)) ELSE s

\* the saldo that simular_valor_futuro returns
SaldoLiquido(s, rb, m, isento) == IF ~isento THEN FSub(s, Imposto(rb, m)) ELSE s

\* variant: rendimento_bruto -= imposto left out
RendimentoSemDesconto(rb, m, isento) == rb

\* the rendimento_bruto that simular_valor_futuro returns
RendimentoRetornado(rb, m, isento) == IF ~isento THEN FSub(rb, Imposto(rb, m)) ELSE rb

Frente(s) == SubSeq(s, 1, Len(s) - 1)

\* variant: the last element of greatest key
RECURSIVE MaxPorSaldoUltimo(_)
MaxPorSaldoUltimo(s) ==
    IF Len(s) = 1 THEN s[1]
    ELSE LET m == MaxPorSaldoUltimo(Frente(s))
         IN  IF FLe(m[2], s[Len(s)][2]) THEN s[Len(s)] ELSE m

\* max(resultados, key=lambda x: x[1]): the first element of greatest key
RECURSIVE MaxPorSaldo(_)
MaxPorSaldo(s) ==
    IF Len(s) = 1 THEN s[1]
    ELSE LET m == MaxPorSaldo(Frente(s))
         IN  IF FLt(m[2], s[Len(s)][2]) THEN s[Len(s)] ELSE m

\* sorted(resultados, key=lambda x: x[1]): ascending and stable
RECURSIVE Inserir(_, _)
Inserir(s, x) ==
    IF s = <<>> THEN <<x>>
    ELSE IF FLe(s[Len(s)][2], x[2]) THEN Append(s, x)
    ELSE Append(Inserir(Frente(s), x), s[Len(s)])

RECURSIVE Ordenar(_)
Ordenar(s) == IF s = <<>> THEN <<>> ELSE Inserir(Ordenar(Frente(s)), s[Len(s)])

----------------------------------------------------------------------------
(* The script: one simulation per product, then the ranking *)

Init ==
    /\ produtos \in { [k \in DOMAIN l |-> Catalogo[l[k]]] : l \in ListasDeProdutos }
    /\ meses \in 0..MaxMeses
    /\ aporte_inicial \in Depositos
    /\ aporte_mensal \in Aportes
    /\ \E c \in Cenarios : cdi_anual = c[1] /\ ipca_anual = c[2]
    /\ idx = 1
    /\ resultados = <<>>
    /\ fig = <<>>
    /\ rent_mensal = Zero
    /\ saldo = Zero
    /\ valores = <<>>
    /\ i = 0
    /\ rendimento_bruto = Zero
    /\ melhor = <<>>
    /\ segundo = <<>>
    /\ dias = 0
    /\ aliquota = Zero
    /\ erro = "nenhum"
    /\ pc = "main"

\* the script calls simular_valor_futuro for produtos[idx]; the function
\* resolves the monthly rate and starts the trajectory
Chamar ==
    /\ pc = "main"
    /\ idx <= Len(produtos)
    /\ rent_mensal' \in calcular_rentabilidade_mensal(produtos[idx].tipo, produtos[idx].taxa,
                                                    cdi_anual, ipca_anual)
    /\ saldo' = aporte_inicial
    /\ valores' = <<aporte_inicial>>
    /\ i' = 1
    /\ rendimento_bruto' = Zero
    /\ pc' = "loop"
    /\ UNCHANGED <<produtos, meses, aporte_inicial, aporte_mensal, cdi_anual, ipca_anual,
                   idx, resultados, fig, melhor, segundo, dias, aliquota, erro>>

\* one iteration of for i in range(1, meses + 1)
Iterar ==
    /\ pc = "loop"
    /\ NoLaco(i, meses)
    /\ saldo' = ProximoSaldo(saldo, rent_mensal, aporte_mensal)
    /\ valores' = Append(valores, saldo')
    /\ i' = i + 1
    /\ UNCHANGED <<produtos, meses, aporte_inicial, aporte_mensal, cdi_anual, ipca_anual,
                   idx, resultados, fig, rent_mensal, rendimento_bruto, melhor, segundo,
                   dias, aliquota, erro, pc>>

\* the loop is over: gain, tax, return
Apurar ==
    /\ pc = "loop"
    /\ ~NoLaco(i, meses)
    /\ LET rb == FSub(saldo, TotalAportado(aporte_inicial, aporte_mensal, meses))
       IN  /\ saldo' = SaldoLiquido(saldo, rb, meses, produtos[idx].isento_ir)
           /\ rendimento_bruto' = RendimentoRetornado(rb, meses, produtos[idx].isento_ir)
    /\ pc' = "retorno"
    /\ UNCHANGED <<produtos, meses, aporte_inicial, aporte_mensal, cdi_anual, ipca_anual,
                   idx, resultados, fig, rent_mensal, valores, i, melhor, segundo,
                   dias, aliquota, erro>>

\* the script records the result and adds the trace; cores has three entries
Registrar ==
    /\ pc = "retorno"
    /\ resultados' = Append(resultados, <<produtos[idx].nome, saldo, rendimento_bruto>>)
    /\ IF idx > Len(cores)
         THEN /\ erro' = "IndexError"
              /\ pc' = "abortado"
              /\ UNCHANGED <<fig, idx>>
         ELSE /\ fig' = Append(fig, valores)
              /\ idx' = idx + 1
              /\ pc' = IF idx = Len(produtos) THEN "ranking" ELSE "main"
              /\ erro' = erro
    /\ UNCHANGED <<produtos, meses, aporte_inicial, aporte_mensal, cdi_anual, ipca_anual,
                   rent_mensal, saldo, valores, i, rendimento_bruto, melhor, segundo,
                   dias, aliquota>>

\* melhor = max(...); segundo = sorted(...)[-2], which needs two results
Classificar ==
    /\ pc = "ranking"
    /\ melhor' = MaxPorSaldo(resultados)
    /\ IF Len(resultados) < 2
         THEN /\ erro' = "IndexError"
              /\ pc' = "abortado"
              /\ segundo' = segundo
         ELSE /\ segundo' = Ordenar(resultados)[Len(resultados) - 1]
              /\ pc' = "fim"
              /\ erro' = erro
    /\ UNCHANGED <<produtos, meses, aporte_inicial, aporte_mensal, cdi_anual, ipca_anual,
                   idx, resultados, fig, rent_mensal, saldo, valores, i, rendimento_bruto,
                   dias, aliquota>>

Next == Chamar \/ Iterar \/ Apurar \/ Registrar \/ Classificar

Spec == Init /\ [][Next]_vars

----------------------------------------------------------------------------
(* A direct call of obter_aliquota_ir on a day count *)

InitAliquota ==
    /\ dias \in 0..MaxDias
    /\ aliquota = Zero
    /\ pc = "consulta"
    /\ produtos = <<>>
    /\ meses = 0
    /\ aporte_inicial = Zero
    /\ aporte_mensal = Zero
    /\ cdi_anual = Zero
    /\ ipca_anual = Zero
    /\ idx = 1
    /\ resultados = <<>>
    /\ fig = <<>>
    /\ rent_mensal = Zero
    /\ saldo = Zero
    /\ valores = <<>>
    /\ i = 0
    /\ rendimento_bruto = Zero
    /\ melhor = <<>>
    /\ segundo = <<>>
    /\ erro = "nenhum"

ObterAliquota ==
    /\ pc = "consulta"
    /\ aliquota' = obter_aliquota_ir(dias)
    /\ pc' = "consultado"
    /\ UNCHANGED <<produtos, meses, aporte_inicial, aporte_mensal, cdi_anual, ipca_anual,
                   idx, resultados, fig, rent_mensal, saldo, valores, i, rendimento_bruto,
                   melhor, segundo, dias, erro>>

NextAliquota == ObterAliquota

SpecAliquota == InitAliquota /\ [][NextAliquota]_vars

----------------------------------------------------------------------------
(* Properties *)

Ultimo(v) == v[Len(v)]

\* simular_valor_futuro has returned for produtos[idx]: saldo, valores,
\* rendimento_bruto and rent_mensal hold the values returned
Retornou == pc = "retorno"

Tributado == ~produtos[idx].isento_ir

\* the capital paid in and the gain before tax, from the plan and the
\* trajectory, in the program's arithmetic
Capital == FAdd(aporte_inicial, FMul(aporte_mensal, DeInt(meses)))
GanhoBruto == FSub(Ultimo(valores), Capital)

\* valores is the untaxed trajectory: it starts at the deposit and each
\* element is the previous one compounded plus the contribution
TrajetoriaSemImposto ==
    /\ valores[1] = aporte_inicial
    /\ \A k \in 2..Len(valores) :
          valores[k] = FAdd(FMul(valores[k - 1], FAdd(Um, rent_mensal)), aporte_mensal)

\* C1: for a taxed product and a horizon of at least one month, the balance
\* returned is the last element of the trajectory minus the gain before tax
\* times the bracket of meses * 30 days, and the trajectory, its last element
\* included, is the untaxed one.
C1_SaldoTributado ==
    (Retornou /\ Tributado /\ meses >= 1) =>
        /\ saldo = FSub(Ultimo(valores), FMul(GanhoBruto, obter_aliquota_ir(meses * 30)))
        /\ TrajetoriaSemImposto

C1_Witness ==
    /\ Retornou /\ Tributado /\ meses >= 7
    /\ FLt(Zero, GanhoBruto)
    /\ FLt(saldo, Ultimo(valores))

\* C2: the bracket is defined for every day count from 0 up, is 0.225 up to
\* 180 days, 0.20 from 181 to 360, 0.175 from 361 to 720 and 0.15 above, with
\* the six boundary values of the table, and never rises with the day count.
C2_TabelaRegressiva ==
    pc = "consultado" =>
        /\ aliquota \in {Aliquota225, Aliquota200, Aliquota175, Aliquota150}
        /\ (dias <= 180) = (aliquota = Decimal(225, 3))
        /\ (181 <= dias /\ dias <= 360) = (aliquota = Decimal(20, 2))
        /\ (361 <= dias /\ dias <= 720) = (aliquota = Decimal(175, 3))
        /\ (dias > 720) = (aliquota = Decimal(15, 2))
        /\ (dias = 180 => aliquota = Aliquota225) /\ (dias = 181 => aliquota = Aliquota200)
        /\ (dias = 360 => aliquota = Aliquota200) /\ (dias = 361 => aliquota = Aliquota175)
        /\ (dias = 720 => aliquota = Aliquota175) /\ (dias = 721 => aliquota = Aliquota150)
        /\ \A d \in 0..dias : FLe(aliquota, obter_aliquota_ir(d))

C2_Witness == pc = "consultado" /\ dias = 721 /\ aliquota = Decimal(15, 2)

\* C3: for a tax-exempt product the balance returned is exactly the last
\* element of the trajectory, whatever the plan, the rate and the scenario.
C3_SaldoIsento ==
    (Retornou /\ ~Tributado) =>
        /\ saldo = Ultimo(valores)
        /\ TrajetoriaSemImposto

C3_Witness ==
    /\ Retornou /\ ~Tributado /\ meses >= 1
    /\ FLt(Zero, GanhoBruto)
    /\ saldo = Ultimo(valores)

\* C4: for a horizon of at least one month the loop runs exactly meses times,
\* appending one balance each time: the trajectory returned starts at the
\* deposit and has meses + 1 elements.
C4_Trajetoria ==
    /\ (pc = "loop" /\ meses >= 1) => (i <= meses + 1 /\ Len(valores) = i)
    /\ (Retornou /\ meses >= 1) =>
          /\ i - 1 = meses
          /\ valores[1] = aporte_inicial
          /\ Len(valores) = meses + 1

C4_Witness == Retornou /\ meses = MaxMeses /\ Len(valores) = MaxMeses + 1

\* C5: when the monthly rate and the monthly contribution are not negative,
\* the trajectory returned never decreases.
C5_Monotonia ==
    (Retornou /\ FLe(Zero, rent_mensal) /\ FLe(Zero, aporte_mensal)) =>
        \A k \in 2..Len(valores) : FLe(valores[k - 1], valores[k])

C5_Witness ==
    /\ Retornou /\ FLt(Zero, rent_mensal) /\ aporte_mensal = Zero /\ meses >= 2
    /\ FLt(valores[1], valores[2])
    /\ FLt(valores[2], Ultimo(valores))

\* C6: the results are one per product, in the order of the products; melhor
\* is a result of greatest balance, and of the results of that balance the
\* first.
C6_MelhorEstavel ==
    /\ Len(resultados) <= Len(produtos)
    /\ \A k \in 1..Len(resultados) : resultados[k][1] = produtos[k].nome
    /\ melhor # <<>> =>
          /\ Len(resultados) = Len(produtos)
          /\ \E k \in 1..Len(resultados) :
                /\ melhor = resultados[k]
                /\ \A j \in 1..Len(resultados) : FLe(resultados[j][2], resultados[k][2])
                /\ \A j \in 1..(k - 1) : FLt(resultados[j][2], resultados[k][2])

C6_Witness ==
    /\ pc = "fim"
    /\ meses >= 1
    /\ aporte_mensal # Zero
    /\ resultados[1][2] = resultados[2][2]
    /\ resultados[1] # resultados[2]
    /\ melhor = resultados[1]

TiposConhecidos == {"Prefixada", "CDI", "IPCA +"}

\* C7: a product of an indexer outside Prefixada, CDI and IPCA + gets no
\* monthly rate and no trajectory: its simulation never runs, it leaves no
\* result and no trace, and the error InvalidProductSpec is reported.
C7_IndexadorDesconhecido ==
    /\ (pc \in {"loop", "retorno"} => produtos[idx].tipo \in TiposConhecidos)
    /\ \A k \in 1..Len(resultados) : produtos[k].tipo \in TiposConhecidos

\* C8: a horizon of zero months is refused: simular_valor_futuro never
\* returns a trajectory that holds the deposit alone.
C8_HorizonteZero ==
    ~(meses < 1 /\ Retornou /\ valores = <<aporte_inicial>>)

\* C9 as stated: in both branches the gain returned equals the balance
\* returned minus the capital paid in.
C9_RendimentoIgualSaldoMenosCapital ==
    Retornou => rendimento_bruto = FSub(saldo, Capital)

\* |x|
FAbs(x) == [x EXCEPT !.s = 1]

\* 2^-50
Tolerancia == [s |-> 1, m |-> BShl(<<1>>, 52), e |-> -102]

\* C9, amended: for an exempt product the gain returned equals the balance
\* returned minus the capital paid in; for a taxed product it is the gain
\* before tax less the tax on it, so net of tax, and differs from the balance
\* returned minus the capital by rounding only: by at most 2^-50 times the sum
\* of the last element of the trajectory and the capital.
C9_RendimentoLiquido ==
    Retornou =>
        /\ ~Tributado => rendimento_bruto = FSub(saldo, Capital)
        /\ Tributado =>
              /\ rendimento_bruto =
                    FSub(GanhoBruto, FMul(GanhoBruto, obter_aliquota_ir(meses * 30)))
              /\ FLe(FAbs(FSub(rendimento_bruto, FSub(saldo, Capital))),
                     FMul(Tolerancia, FAdd(Ultimo(valores), Capital)))

C9_Witness ==
    /\ Retornou /\ Tributado /\ meses >= 1
    /\ FLt(Zero, GanhoBruto)
    /\ FLt(Zero, rendimento_bruto)
    /\ FLt(rendimento_bruto, GanhoBruto)
    /\ rendimento_bruto # FSub(saldo, Capital)

\* C10 as stated, for the products of the three indexers: for a taxed
\* product with monthly rate, deposit and contribution not negative and a
\* horizon of at least one month, the balance returned is at least the
\* capital paid in and at most the last element of the trajectory.
C10_ImpostoNaoConsomePrincipal ==
    (Retornou /\ Tributado /\ produtos[idx].tipo \in TiposConhecidos
       /\ FLe(Zero, rent_mensal)
       /\ FLe(Zero, aporte_inicial) /\ FLe(Zero, aporte_mensal) /\ meses >= 1) =>
        /\ FLe(Capital, saldo)
        /\ FLe(saldo, Ultimo(valores))

\* 2^-52, the distance from 1.0 to the next float
Epsilon == [s |-> 1, m |-> BShl(<<1>>, 52), e |-> -104]

\* the rounding the trajectory and the capital can have gathered after meses
\* months, two operations a month: (meses + 1) * 2^-52 times the sum of the
\* last element of the trajectory and the capital
Folga == FMul(FMul(DeInt(meses + 1), Epsilon), FAdd(Ultimo(valores), Capital))

\* C10, amended: under the same conditions the balance returned is at least
\* the capital and at most the last element of the trajectory up to rounding:
\* it falls short of the capital, and exceeds the last element, by at most
\* Folga.  Where the trajectory does not end below the capital, the tax is
\* not negative and both bounds hold exactly.
C10_ImpostoSobreGanho ==
    (Retornou /\ Tributado /\ FLe(Zero, rent_mensal)
       /\ FLe(Zero, aporte_inicial) /\ FLe(Zero, aporte_mensal) /\ meses >= 1) =>
        /\ FLe(FSub(Capital, saldo), Folga)
        /\ FLe(FSub(saldo, Ultimo(valores)), Folga)
        /\ FLe(Capital, Ultimo(valores)) =>
              /\ FLe(Zero, Imposto(GanhoBruto, meses))
              /\ FLe(Capital, saldo)
              /\ FLe(saldo, Ultimo(valores))

C10_Witness ==
    /\ Retornou /\ Tributado /\ produtos[idx].tipo \in TiposConhecidos
    /\ FLt(Zero, rent_mensal) /\ meses >= 1
    /\ FLt(Capital, saldo)
    /\ FLt(saldo, Ultimo(valores))

====
